---- MODULE Spec2Model ----
(***************************************************************************)
(* A model of boolean_sat_solver.py: unit-clause simplification            *)
(* (simplify_with_unit_clauses), the recursive backtracking search         *)
(* (satisfying_assignment / try_assignment) run as an explicit stack of    *)
(* call frames, and the reduction of the room-scheduling problem to CNF    *)
(* (boolify_scheduling_problem).                                           *)
(*                                                                         *)
(* A literal is <<variable, value>>, a clause a sequence of literals, a    *)
(* formula a sequence of clauses, an assignment (a Python dict) a function *)
(* whose DOMAIN is the set of bound variables.                             *)
(***************************************************************************)
EXTENDS Integers, Sequences, FiniteSets, TLC

VARIABLES
    input,                \* the formula handed to the top-level call
    stack,                \* active satisfying_assignment calls, outermost first
    ret,                  \* value just returned by a recursive call
    result,               \* outcome of the top-level call
    pformula,             \* propagation harness: formula of the next pass
    passignments,         \* propagation harness: the assignments dict
    plog,                 \* propagation harness: the passes made so far
    student_preferences,  \* scheduling problem: <<student, <<session, ...>>>> in dict order
    room_capacities       \* scheduling problem: <<session, capacity>> in dict order

vars == <<input, stack, ret, result, pformula, passignments, plog,
          student_preferences, room_capacities>>

-----------------------------------------------------------------------------
(* Bounds of the model *)

VarNames == {"a", "b", "c"}
TwoNames == {"a", "b"}
MaxSize == 8          \* size (clauses plus literals) of an input formula over TwoNames
MaxSize3 == 6         \* size of an input formula over VarNames
PropMaxSize == 6      \* size of a formula handed to the propagation harness
MaxCalls == 2         \* consecutive passes made by the propagation harness
NumStudents == 2
NumSessions == 2
MaxCapacity == 2

RECURSIVE Sum(_)
Sum(s) == IF s = <<>> THEN 0 ELSE Head(s) + Sum(Tail(s))

\* the clause lengths of the formulas whose clauses plus literals number exactly w
RECURSIVE ShapesOfSize(_)
ShapesOfSize(w) ==
    IF w = 0 THEN {<<>>}
    ELSE UNION {{<<k>> \o s : s \in ShapesOfSize(w - 1 - k)} : k \in 0..(w - 1)}

ShapesUpTo(w) == UNION {ShapesOfSize(n) : n \in 0..w}

\* the formula of that shape whose literals, read left to right, are lits
Build(shape, lits) ==
    [i \in 1..Len(shape) |->
        [j \in 1..shape[i] |-> lits[Sum(SubSeq(shape, 1, i - 1)) + j]]]

\* input is a formula over names of size at most w
IsFormula(f, names, w) ==
    \E shape \in ShapesUpTo(w) :
        \E lits \in [1..Sum(shape) -> names \X BOOLEAN] : f = Build(shape, lits)

Assignments == UNION {[S -> BOOLEAN] : S \in SUBSET VarNames}

-----------------------------------------------------------------------------
(* Semantics of formulas, used to state the properties *)

VarsOfClause(clause) == {clause[i][1] : i \in 1..Len(clause)}
VarsOf(formula) == UNION {VarsOfClause(formula[k]) : k \in 1..Len(formula)}

ClauseHolds(clause, A) ==
    \E i \in 1..Len(clause) : clause[i][1] \in DOMAIN A /\ A[clause[i][1]] = clause[i][2]
Satisfies(A, formula) == \A k \in 1..Len(formula) : ClauseHolds(formula[k], A)
Satisfiable(formula) == \E A \in [VarsOf(formula) -> BOOLEAN] : Satisfies(A, formula)
SatisfiableWith(formula, variable, value) ==
    \E A \in [VarsOf(formula) \cup {variable} -> BOOLEAN] :
        A[variable] = value /\ Satisfies(A, formula)
HasEmptyClause(formula) == \E k \in 1..Len(formula) : Len(formula[k]) = 0

-----------------------------------------------------------------------------
(* simplify_with_unit_clauses *)

\* faulty variant: any literal on a bound variable counts as a match
MatchesAny(assignments, variable, value) == TRUE

\* line 39: the literal agrees with the stored value
Matches(assignments, variable, value) == assignments[variable] = value

\* faulty variant: a literal that disagrees stays in the simplified clause
FalsifiedKept(simplified_clause, literal) == Append(simplified_clause, literal)

\* lines 41-42: a literal that disagrees is left out of the simplified clause
Falsified(simplified_clause, literal) == simplified_clause

\* lines 53-54: assignments[clause_var] = clause_val
BindUnit(assignments, literal) ==
    [v \in DOMAIN assignments \cup {literal[1]} |->
        IF v = literal[1] THEN literal[2] ELSE assignments[v]]

\* faulty variant: a unit clause leaves the flag as it was
UnitFlagUnset(exists_unit_clause) == exists_unit_clause

\* line 52: a unit clause sets the flag
UnitFlag(exists_unit_clause) == TRUE

\* lines 34-46: the scan of one clause; broke is the break on a matching literal
RECURSIVE ScanClause(_, _, _, _)
ScanClause(clause, i, assignments, simplified_clause) ==
    IF i > Len(clause)
    THEN [broke |-> FALSE, simplified_clause |-> simplified_clause]
    ELSE LET variable == clause[i][1]
             value == clause[i][2]
         IN  IF variable \in DOMAIN assignments
             THEN IF Matches(assignments, variable, value)
                  THEN [broke |-> TRUE, simplified_clause |-> simplified_clause]
                  ELSE ScanClause(clause, i + 1, assignments,
                                  Falsified(simplified_clause, clause[i]))
             ELSE ScanClause(clause, i + 1, assignments,
                             Append(simplified_clause, clause[i]))

\* lines 32-60: the loop over the clauses. none is the early "return None"; the
\* dict is mutated in place, so its bindings survive that return.
RECURSIVE SimplifyLoop(_, _, _, _, _)
SimplifyLoop(formula, k, assignments, simplified_formula, exists_unit_clause) ==
    IF k > Len(formula)
    THEN [none |-> FALSE, formula |-> simplified_formula,
          flag |-> exists_unit_clause, assignments |-> assignments]
    ELSE LET s == ScanClause(formula[k], 1, assignments, <<>>)
             simplified_clause == s.simplified_clause
         IN  IF s.broke
             THEN SimplifyLoop(formula, k + 1, assignments, simplified_formula,
                               exists_unit_clause)
             ELSE IF Len(simplified_clause) = 0
             THEN [none |-> TRUE, formula |-> <<>>, flag |-> FALSE,
                   assignments |-> assignments]
             ELSE IF Len(simplified_clause) = 1
             THEN SimplifyLoop(formula, k + 1, BindUnit(assignments, simplified_clause[1]),
                               simplified_formula, UnitFlag(exists_unit_clause))
             ELSE SimplifyLoop(formula, k + 1, assignments,
                               Append(simplified_formula, simplified_clause),
                               exists_unit_clause)

simplify_with_unit_clauses(formula, assignments) ==
    SimplifyLoop(formula, 1, assignments, <<>>, FALSE)

-----------------------------------------------------------------------------
(* satisfying_assignment *)

EmptyDict == <<>>
Nil == [kind |-> "nil", asg |-> EmptyDict]
None == [kind |-> "none", asg |-> EmptyDict]
Sat(A) == [kind |-> "sat", asg |-> A]
Crash == [kind |-> "crash", asg |-> EmptyDict]

\* faulty variant: the opposite polarity is tried first
TrialsReversed(value) == <<~value, value>>

\* faulty variant: only the polarity as written is tried
TrialsOnce(value) == <<value>>

\* line 113: for val in [value, not value]
Trials(value) == <<value, ~value>>

\* line 107: assignment.update(temp_assignment)
Update(assignment, temp_assignment) ==
    [v \in DOMAIN assignment \cup DOMAIN temp_assignment |->
        IF v \in DOMAIN temp_assignment THEN temp_assignment[v] ELSE assignment[v]]

\* lines 75-81: the head of a call. An empty formula returns {}; formula[0][0]
\* of an empty first clause raises IndexError; otherwise the call branches.
Entry(formula) ==
    IF Len(formula) = 0 THEN "return"
    ELSE IF Len(formula[1]) = 0 THEN "raise"
    ELSE "branch"

\* the frame of a call that branches: line 81, before the first trial
NewFrame(formula) ==
    [formula |-> formula, variable |-> formula[1][1][1], value |-> formula[1][1][2],
     trial |-> 1, simplified_formula |-> <<>>, exists_unit_clause |-> TRUE,
     temp_assignment |-> EmptyDict, pc |-> "trial"]

\* faulty variant: a trial goes on with the dict and the formula the trial before it left
TrialFrameShared(frame) ==
    [frame EXCEPT !.temp_assignment =
                      Update(frame.temp_assignment,
                             [v \in {frame.variable} |-> Trials(frame.value)[frame.trial]]),
                  !.simplified_formula =
                      IF frame.trial = 1 THEN frame.formula ELSE frame.simplified_formula,
                  !.exists_unit_clause = TRUE,
                  !.pc = "loop"]

\* lines 114, 90-91: try_assignment({variable: val}) and its first statements
TrialFrame(frame) ==
    [frame EXCEPT !.temp_assignment = [v \in {frame.variable} |-> Trials(frame.value)[frame.trial]],
                  !.simplified_formula = frame.formula,
                  !.exists_unit_clause = TRUE,
                  !.pc = "loop"]

Top == stack[Len(stack)]
Below == SubSeq(stack, 1, Len(stack) - 1)
Running == result.kind = "running"
Terminated == result.kind \in {"sat", "none", "crash"}

\* the innermost call returns val to its caller (the client, for the outermost)
ReturnValue(val) ==
    /\ stack' = Below
    /\ IF Len(stack) = 1
       THEN result' = val /\ ret' = Nil
       ELSE result' = result /\ ret' = val

\* lines 117-122: a failed trial moves on to the next polarity, or the call
\* returns None after the last one
FailTrial ==
    IF Top.trial < Len(Trials(Top.value))
    THEN /\ stack' = Append(Below, [Top EXCEPT !.trial = Top.trial + 1, !.pc = "trial"])
         /\ ret' = Nil
         /\ result' = result
    ELSE ReturnValue(None)

Idle == UNCHANGED <<pformula, passignments, plog, student_preferences, room_capacities>>

\* the client calls satisfying_assignment(input): lines 75-81
Solve ==
    /\ result.kind = "init"
    /\ LET e == Entry(input)
       IN  /\ result' = IF e = "return" THEN Sat(EmptyDict)
                        ELSE IF e = "raise" THEN Crash
                        ELSE [kind |-> "running", asg |-> EmptyDict]
           /\ stack' = IF e = "branch" THEN <<NewFrame(input)>> ELSE <<>>
    /\ UNCHANGED <<input, ret>>
    /\ Idle

\* lines 113-114, 90-94: the next polarity is tried on a fresh dict and a copy
\* of the formula
StartTrial ==
    /\ Running
    /\ stack # <<>>
    /\ Top.pc = "trial"
    /\ stack' = Append(Below, TrialFrame(Top))
    /\ UNCHANGED <<input, ret, result>>
    /\ Idle

\* lines 97-102: one turn of the while loop, a whole simplification pass
Pass ==
    /\ Running
    /\ stack # <<>>
    /\ Top.pc = "loop"
    /\ Top.exists_unit_clause
    /\ LET r == simplify_with_unit_clauses(Top.simplified_formula, Top.temp_assignment)
       IN  IF r.none
           THEN FailTrial
           ELSE /\ stack' = Append(Below, [Top EXCEPT !.simplified_formula = r.formula,
                                                      !.exists_unit_clause = r.flag,
                                                      !.temp_assignment = r.assignments])
                /\ UNCHANGED <<ret, result>>
    /\ UNCHANGED input
    /\ Idle

\* line 104: the loop has ended and satisfying_assignment(simplified_formula)
\* is called; lines 75-81 of the callee run
Recurse ==
    /\ Running
    /\ stack # <<>>
    /\ Top.pc = "loop"
    /\ ~Top.exists_unit_clause
    /\ LET e == Entry(Top.simplified_formula)
           waiting == Append(Below, [Top EXCEPT !.pc = "wait"])
       IN  IF e = "return"
           THEN stack' = waiting /\ ret' = Sat(EmptyDict) /\ result' = result
           ELSE IF e = "raise"
           THEN stack' = <<>> /\ ret' = Nil /\ result' = Crash
           ELSE /\ stack' = Append(waiting, NewFrame(Top.simplified_formula))
                /\ ret' = Nil /\ result' = result
    /\ UNCHANGED input
    /\ Idle

\* lines 106-110, 117-120: the recursive call has returned
Return ==
    /\ Running
    /\ stack # <<>>
    /\ Top.pc = "wait"
    /\ ret.kind # "nil"
    /\ IF ret.kind = "sat"
       THEN ReturnValue(Sat(Update(ret.asg, Top.temp_assignment)))
       ELSE FailTrial
    /\ UNCHANGED input
    /\ Idle

-----------------------------------------------------------------------------
(* Propagation harness: simplify_with_unit_clauses called on any formula and *)
(* any assignments dict, then again on what it returned, with the same dict *)

Propagate ==
    /\ Len(plog) < MaxCalls
    /\ plog # <<>> => ~plog[Len(plog)].ret.none
    /\ LET r == simplify_with_unit_clauses(pformula, passignments)
       IN  /\ plog' = Append(plog, [formula |-> pformula, assignments |-> passignments,
                                    ret |-> r])
           /\ pformula' = IF r.none THEN pformula ELSE r.formula
           /\ passignments' = r.assignments
    /\ UNCHANGED <<input, stack, ret, result, student_preferences, room_capacities>>

-----------------------------------------------------------------------------
(* boolify_scheduling_problem *)

Students == 1..NumStudents
Sessions == 1..NumSessions

\* line 134: student+"_"+session; names hold no underscore (line 207), so the
\* pair is recovered from the string
Name(student, session) == <<student, session>>

RECURSIVE Flatten(_)
Flatten(seqs) == IF seqs = <<>> THEN <<>> ELSE Head(seqs) \o Flatten(Tail(seqs))

Keys(dict) == [i \in 1..Len(dict) |-> dict[i][1]]

\* lines 130-136
get_preferences(prefs) ==
    [i \in 1..Len(prefs) |->
        [j \in 1..Len(prefs[i][2]) |-> <<Name(prefs[i][1], prefs[i][2][j]), TRUE>>]]

\* lines 143-151
RECURSIVE get_combos(_, _, _), CombosFrom(_, _, _, _)
get_combos(elts, length, prev) ==
    IF Len(prev) = length THEN <<prev>> ELSE CombosFrom(elts, length, prev, 1)
CombosFrom(elts, length, prev, i) ==
    IF i > Len(elts) THEN <<>>
    ELSE get_combos(SubSeq(elts, i + 1, Len(elts)), length, Append(prev, elts[i]))
         \o CombosFrom(elts, length, prev, i + 1)

\* lines 159-168
get_max_one_session(prefs, rooms) ==
    LET students == Keys(prefs)
        sess_combos == get_combos(Keys(rooms), 2, <<>>)
    IN  Flatten([i \in 1..Len(students) |->
            [c \in 1..Len(sess_combos) |->
                [j \in 1..Len(sess_combos[c]) |->
                    <<Name(students[i], sess_combos[c][j]), FALSE>>]]])

\* lines 176-192
get_oversubscribed(prefs, rooms) ==
    LET students == Keys(prefs)
    IN  Flatten([r \in 1..Len(rooms) |->
            LET session == rooms[r][1]
                capacity == rooms[r][2]
                student_combos == get_combos(students, capacity + 1, <<>>)
            IN  IF Len(students) > capacity
                THEN [c \in 1..Len(student_combos) |->
                        [j \in 1..Len(student_combos[c]) |->
                            <<Name(student_combos[c][j], session), FALSE>>]]
                ELSE <<>>])

\* line 209
boolify_scheduling_problem(prefs, rooms) ==
    get_preferences(prefs) \o get_max_one_session(prefs, rooms)
        \o get_oversubscribed(prefs, rooms)

\* sequences of distinct elements of S: the orders in which a dict's keys or a
\* set's elements can be iterated
Orders(S) ==
    {q \in UNION {[1..n -> S] : n \in 0..Cardinality(S)} :
        \A i, j \in 1..Len(q) : i # j => q[i] # q[j]}

PreferenceDicts ==
    UNION {[1..Len(q) -> Students \X Orders(Sessions)] : q \in Orders(Students)}
RoomDicts ==
    UNION {[1..Len(q) -> Sessions \X (1..MaxCapacity)] : q \in Orders(Sessions)}
DistinctKeys(dict) == \A i, j \in 1..Len(dict) : i # j => dict[i][1] # dict[j][1]

-----------------------------------------------------------------------------
(* Specifications *)

NoCall == stack = <<>> /\ ret = Nil /\ result = [kind |-> "init", asg |-> EmptyDict]
NoHarness == pformula = <<>> /\ passignments = EmptyDict /\ plog = <<>>
NoProblem == student_preferences = <<>> /\ room_capacities = <<>>

\* the solver on every small formula
Init ==
    /\ \/ IsFormula(input, TwoNames, MaxSize)
       \/ IsFormula(input, VarNames, MaxSize3)
    /\ NoCall
    /\ NoHarness
    /\ NoProblem

Next == Solve \/ StartTrial \/ Pass \/ Recurse \/ Return

Spec == Init /\ [][Next]_vars

\* the interpreter runs the call to its end
FairSpec == Init /\ [][Next]_vars /\ WF_vars(Next)

\* one pass, and passes on its own output, from every small formula and dict
PropInit ==
    /\ IsFormula(pformula, VarNames, PropMaxSize)
    /\ passignments \in Assignments
    /\ plog = <<>>
    /\ input = <<>>
    /\ NoCall
    /\ NoProblem

PropSpec == PropInit /\ [][Propagate]_vars

\* the solver on the encoding of every small scheduling problem
SchedInit ==
    /\ student_preferences \in {d \in PreferenceDicts : DistinctKeys(d)}
    /\ room_capacities \in {d \in RoomDicts : DistinctKeys(d)}
    /\ input = boolify_scheduling_problem(student_preferences, room_capacities)
    /\ NoCall
    /\ NoHarness

SchedSpec == SchedInit /\ [][Next]_vars

-----------------------------------------------------------------------------
(* Properties *)

FirstVariable == input[1][1][1]
FirstValue == input[1][1][2]
Branches == input # <<>> /\ input[1] # <<>>

\* C1: whenever the top-level call has ended, it has returned None or an
\* assignment under which every clause of the input has a matching literal.
C1_Sound ==
    Terminated =>
        \/ result.kind = "none"
        \/ result.kind = "sat" /\ Satisfies(result.asg, input)

\* the same for the calls that do return a value
ReturnedValueSound ==
    /\ result.kind = "sat" => Satisfies(result.asg, input)
    /\ result.kind = "none" => ~Satisfiable(input)

\* C2: None is the outcome only of an unsatisfiable input, and a satisfiable
\* input ends with an assignment.
C2_Complete ==
    Terminated =>
        /\ result.kind = "none" => ~Satisfiable(input)
        /\ Satisfiable(input) => result.kind = "sat"

\* a satisfiable input of several clauses solved only by the second polarity
C2_Witness ==
    /\ result.kind = "sat"
    /\ Len(input) >= 2
    /\ ~SatisfiableWith(input, FirstVariable, FirstValue)
    /\ Cardinality(DOMAIN result.asg) >= 2

\* C3: an input with an empty clause, wherever it stands, ends with None.
C3_EmptyClauseNone ==
    (Terminated /\ HasEmptyClause(input)) => result.kind = "none"

\* The pass as the claim C4 words it: a clause with a literal the dict agrees
\* with is dropped; else its literals on bound variables are left out, none
\* left ends the pass, one left is bound and flagged, more are output.
RefDropped(clause, A) ==
    \E i \in 1..Len(clause) : clause[i][1] \in DOMAIN A /\ A[clause[i][1]] = clause[i][2]
RefReduced(clause, A) == SelectSeq(clause, LAMBDA l : l[1] \notin DOMAIN A)
RECURSIVE RefPass(_, _, _, _)
RefPass(formula, A, out, flag) ==
    IF formula = <<>>
    THEN [none |-> FALSE, formula |-> out, flag |-> flag, assignments |-> A]
    ELSE LET reduced == RefReduced(Head(formula), A)
         IN  IF RefDropped(Head(formula), A) THEN RefPass(Tail(formula), A, out, flag)
             ELSE IF Len(reduced) = 0
             THEN [none |-> TRUE, formula |-> <<>>, flag |-> FALSE, assignments |-> A]
             ELSE IF Len(reduced) = 1
             THEN RefPass(Tail(formula), (reduced[1][1] :> reduced[1][2]) @@ A, out, TRUE)
             ELSE RefPass(Tail(formula), A, Append(out, reduced), flag)

\* C4: every pass returns what the reference pass returns on the same formula
\* and dict: the same outcome, clause list, flag and bindings.
C4_PassIsReference ==
    \A i \in 1..Len(plog) :
        plog[i].ret = RefPass(plog[i].formula, plog[i].assignments, <<>>, FALSE)

\* a pass on a non-empty dict that bound a unit and output a shortened clause
C4_Witness ==
    /\ plog # <<>>
    /\ ~plog[1].ret.none
    /\ plog[1].ret.flag
    /\ Len(plog[1].ret.formula) = 1
    /\ Len(plog[1].formula) = 2
    /\ Len(plog[1].ret.formula[1]) < Len(plog[1].formula[1])
    /\ DOMAIN plog[1].assignments # {}

\* C5: a frame reaches its second trial only when the formula cannot be
\* satisfied with the branching literal as written, and the assignment
\* returned binds the first literal's variable as written whenever the input
\* can be satisfied that way, and the opposite way only otherwise.
C5_PolarityPriority ==
    /\ \A i \in 1..Len(stack) :
          /\ stack[i].variable = stack[i].formula[1][1][1]
          /\ stack[i].value = stack[i].formula[1][1][2]
          /\ stack[i].trial = 2 =>
                ~SatisfiableWith(stack[i].formula, stack[i].variable, stack[i].value)
    /\ (result.kind = "sat" /\ Branches) =>
          /\ FirstVariable \in DOMAIN result.asg
          /\ result.asg[FirstVariable] =
                (IF SatisfiableWith(input, FirstVariable, FirstValue)
                 THEN FirstValue ELSE ~FirstValue)

\* an assignment that binds the branching variable against the literal
C5_Witness ==
    /\ result.kind = "sat"
    /\ Branches
    /\ result.asg[FirstVariable] # FirstValue

SomeStudentWithoutSession ==
    \E i \in 1..Len(student_preferences) : student_preferences[i][2] = <<>>

\* C6: a scheduling problem in which some student has no acceptable session
\* is encoded with an empty clause and ends with None.
C6_EmptyPreferenceNone ==
    (Terminated /\ SomeStudentWithoutSession) =>
        /\ HasEmptyClause(input)
        /\ result.kind = "none"

\* the encoding alone: the clause of such a student is empty
EmptyPreferenceClause ==
    \A i \in 1..Len(student_preferences) :
        student_preferences[i][2] = <<>> => input[i] = <<>>

\* the formula of a recursive call holds none of the variables bound by its
\* caller's trial, so not the caller's branching variable, and no variable
\* the caller's formula lacks; hence a frame per variable at most
C7_Shrinks ==
    /\ \A i \in 1..(Len(stack) - 1) :
          /\ stack[i + 1].formula = stack[i].simplified_formula
          /\ stack[i].variable \notin VarsOf(stack[i + 1].formula)
          /\ VarsOf(stack[i + 1].formula) \subseteq VarsOf(stack[i].formula)
          /\ Cardinality(VarsOf(stack[i + 1].formula)) < Cardinality(VarsOf(stack[i].formula))
    /\ Len(stack) <= Cardinality(VarsOf(input))

\* a pass that reports a unit has added a binding to the dict
C7_PassBinds ==
    (/\ stack # <<>>
     /\ Top.pc = "loop"
     /\ Len(stack') = Len(stack)
     /\ Top'.pc = "loop"
     /\ Top'.exists_unit_clause)
    => /\ DOMAIN Top.temp_assignment \subseteq DOMAIN Top'.temp_assignment
       /\ DOMAIN Top.temp_assignment # DOMAIN Top'.temp_assignment
       /\ \A v \in DOMAIN Top.temp_assignment :
              Top'.temp_assignment[v] = Top.temp_assignment[v]

\* A measure of the work left. Each call is a digit, the outermost the most
\* significant: its first trial outweighs its second; within a trial, the
\* start outweighs the loop, the loop weighs by the variables of the formula
\* still unbound (at most those of the input) and by the flag, and waiting for the recursive call weighs
\* least.
Width == Cardinality(VarsOf(input))
RECURSIVE Pow(_, _)
Pow(x, n) == IF n = 0 THEN 1 ELSE x * Pow(x, n - 1)
FrameRank(f, width) ==
    (2 - f.trial) * (2 * width + 4) + 1
    + (CASE f.pc = "trial" -> 2 * width + 3
         [] f.pc = "loop" -> 2 * (width - Cardinality(DOMAIN f.temp_assignment))
                             + (IF f.exists_unit_clause THEN 1 ELSE 0) + 1
         [] f.pc = "wait" -> 0)
RECURSIVE StackRank(_, _, _)
StackRank(i, width, acc) ==
    IF i > Len(stack) THEN acc * Pow(4 * width + 9, width - Len(stack))
    ELSE StackRank(i + 1, width, acc * (4 * width + 9) + FrameRank(stack[i], width))
Rank == StackRank(1, Width, IF result.kind = "init" THEN 1 ELSE 0)

\* C7: recursive calls get formulas of strictly fewer variables, the depth
\* of the recursion is at most the number of variables of the input, a pass
\* that reports a unit binds a new variable, and the call ends: until it has,
\* a step is possible, and every step lowers the measure of the work left.
C7_Terminates ==
    /\ []C7_Shrinks
    /\ [](Terminated \/ ENABLED Next)
    /\ [][C7_PassBinds /\ Rank' < Rank /\ Rank' >= 0]_vars

\* under the fairness of an interpreter that keeps running, the call ends
EventuallyTerminated == <>Terminated

\* as many nested calls as the input has variables, and more than one
C7_Witness ==
    /\ Len(stack) >= 2
    /\ Len(stack) = Cardinality(VarsOf(input))
    /\ Top.pc = "wait"

\* the pass after pass i, made on its output with the same dict, reports no
\* unit and changes neither the clause list nor the dict
Fixpoint(i) ==
    /\ ~plog[i + 1].ret.none
    /\ ~plog[i + 1].ret.flag
    /\ plog[i + 1].ret.formula = plog[i].ret.formula
    /\ plog[i + 1].ret.assignments = plog[i].ret.assignments

\* C8 as stated: a pass on the output of any pass is a fixpoint.
C8_AnyPassIdempotent ==
    \A i \in 1..(Len(plog) - 1) : Fixpoint(i)

\* C8 amended: a pass on the output of a pass that reported no unit is a
\* fixpoint.
C8_QuietPassIdempotent ==
    \A i \in 1..(Len(plog) - 1) : ~plog[i].ret.flag => Fixpoint(i)

\* a pass that shortened the formula without finding a unit, and a second one
C8_Witness ==
    /\ Len(plog) >= 2
    /\ ~plog[1].ret.flag
    /\ plog[1].ret.formula # <<>>
    /\ plog[1].ret.formula # plog[1].formula

\* C9: once the loop of a trial has ended, no variable bound in the trial's
\* dict occurs in the residual formula, and an assignment returned by the
\* recursive call shares no key with that dict.
C9_MergeDisjoint ==
    /\ \A i \in 1..Len(stack) :
          (stack[i].pc = "wait" \/ (stack[i].pc = "loop" /\ ~stack[i].exists_unit_clause))
          => VarsOf(stack[i].simplified_formula) \cap DOMAIN stack[i].temp_assignment = {}
    /\ (stack # <<>> /\ Top.pc = "wait" /\ ret.kind = "sat")
          => DOMAIN ret.asg \cap DOMAIN Top.temp_assignment = {}

\* a merge of a non-empty assignment, in a second trial
C9_Witness ==
    /\ stack # <<>>
    /\ Top.pc = "wait"
    /\ Top.trial = 2
    /\ ret.kind = "sat"
    /\ DOMAIN ret.asg # {}

\* what a step leaves alone: the caller's formula, the formula of every
\* call (the input, or its caller's residual), and the trial state of the
\* calls below the innermost; and a trial starts from the seed alone and from
\* the formula of its call
C10_Step ==
    /\ input' = input
    /\ \A i \in 1..Len(stack') :
          stack'[i].formula = IF i = 1 THEN input ELSE stack'[i - 1].simplified_formula
    /\ \A i \in 1..(Len(stack') - 1) :
          i <= Len(stack) =>
              /\ stack'[i].temp_assignment = stack[i].temp_assignment
              /\ stack'[i].simplified_formula = stack[i].simplified_formula
              /\ stack'[i].trial = stack[i].trial
    /\ (stack # <<>> /\ Top.pc = "trial") =>
          /\ Len(stack') = Len(stack)
          /\ Top'.pc = "loop"
          /\ Top'.formula = Top.formula
          /\ Top'.simplified_formula = Top.formula
          /\ DOMAIN Top'.temp_assignment = {Top.variable}
          /\ Top'.temp_assignment[Top.variable] =
                (IF Top.trial = 1 THEN Top.value ELSE ~Top.value)

\* C10: the trials of a call share no state: the second starts from a dict
\* holding the opposite polarity of the branching variable only and from the
\* formula the first started from, and the caller's formula never changes.
C10_Isolated == [][C10_Step]_vars

\* a second trial under way in the outermost call, after a first trial that
\* failed below a recursive call and left bindings and a shortened formula
C10_Witness ==
    /\ Len(stack) = 1
    /\ Top.trial = 2
    /\ Top.pc = "loop"
    /\ Top.simplified_formula = input
    /\ DOMAIN Top.temp_assignment = {FirstVariable}
    /\ Len(input) >= 3
    /\ \A k \in 2..Len(input) :
          Len(input[k]) >= 2 /\ FirstVariable \notin VarsOfClause(input[k])

====
